---- MODULE Spec2Model ----
(***************************************************************************)
(* Refap: the crawl-and-download engine (internal/crawler) and the path     *)
(* safety layer (internal/pathutil), modelled as a state machine.           *)
(*                                                                          *)
(* A Go string is a sequence of one-character strings, so that the index    *)
(* arithmetic of ParseIndex, the extension rules of shouldDownloadFile and  *)
(* the lexical path functions are computed as the code computes them.       *)
(* The file system is a set of directories and a map from files to their    *)
(* content, both keyed by cleaned absolute paths; relative paths resolve    *)
(* against the process's working directory, as in the operating system.     *)
(***************************************************************************)
EXTENDS Integers, Sequences, FiniteSets, TLC

VARIABLES
    goos,        \* runtime.GOOS of the build
    cfg,         \* Crawler.config
    site,        \* which remote the HTTP server serves
    repoList,    \* argument of ProcessRepositories
    run,         \* number of the process run (a second run starts a new process)
    cwd,         \* working directory of the process
    dirs,        \* directories of the local file system
    files,       \* regular files of the local file system: path -> content
    htmlFiles,   \* Crawler.htmlFiles, the ledger of index files
    failLog,     \* lines appended to failed_download.txt during the runs
    prpc,        \* position of ProcessRepositories
    repoIdx,     \* loop index of ProcessRepositories over repoList (1-based)
    cleanIdx,    \* loop index of CleanupHTMLFiles over htmlFiles (1-based)
    stack,       \* the active ParseIndex calls, innermost last
    dl,          \* the active downloadFile call
    result,      \* outcome of the process: running, ok, error, panic
    httpFails,   \* transient HTTP failures the server produced in this run
    hist,        \* history of the runs, read by the properties only
    toml,        \* the [files] switches of the configuration file main was started with
    locked,      \* directories the process has no permission to change into
    probe        \* a library function applied on its own: its argument and its results

vars == <<goos, cfg, site, repoList, run, cwd, dirs, files, htmlFiles, failLog,
          prpc, repoIdx, cleanIdx, stack, dl, result, httpFails, hist, toml, locked, probe>>

(***************************************************************************)
(* Bounds of the model.                                                     *)
(***************************************************************************)
MaxRetryAttempts == 3
MaxHttpFails == 2
MaxRuns == 2

(***************************************************************************)
(* Package strings.                                                         *)
(***************************************************************************)
Max(S) == CHOOSE x \in S : \A y \in S : y <= x
Min(S) == CHOOSE x \in S : \A y \in S : x <= y

HasPrefix(s, p) == Len(s) >= Len(p) /\ SubSeq(s, 1, Len(p)) = p
HasSuffix(s, p) == Len(s) >= Len(p) /\ SubSeq(s, Len(s) - Len(p) + 1, Len(s)) = p

\* strings.Index: 0-based position of the first occurrence of p in s, -1 if none
Index(s, p) ==
    LET hits == {i \in 0..(Len(s) - Len(p)) : SubSeq(s, i + 1, i + Len(p)) = p}
    IN  IF hits = {} THEN -1 ELSE Min(hits)

Contains(s, p) == Index(s, p) >= 0

\* the Go slice expression s[lo:hi] (0-based, hi exclusive); it panics unless SliceOK
SliceOK(s, lo, hi) == 0 <= lo /\ lo <= hi /\ hi <= Len(s)
Slice(s, lo, hi) == SubSeq(s, lo + 1, hi)

IsSpace(c) == c \in {" ", "\t", "\n", "\r"}

RECURSIVE TrimLeftSpace(_)
TrimLeftSpace(s) == IF s # <<>> /\ IsSpace(Head(s)) THEN TrimLeftSpace(Tail(s)) ELSE s

RECURSIVE TrimRightSpace(_)
TrimRightSpace(s) ==
    IF s # <<>> /\ IsSpace(s[Len(s)]) THEN TrimRightSpace(SubSeq(s, 1, Len(s) - 1)) ELSE s

TrimSpace(s) == TrimRightSpace(TrimLeftSpace(s))

\* strings.TrimLeft(s, " ")
RECURSIVE TrimLeftBlank(_)
TrimLeftBlank(s) == IF s # <<>> /\ Head(s) = " " THEN TrimLeftBlank(Tail(s)) ELSE s

\* strings.Replace(s, c, "", -1) and strings.ReplaceAll(s, c, d) for one-character c, d
RemoveChar(s, c) == SelectSeq(s, LAMBDA x : x # c)
ReplaceChar(s, c, d) == [i \in 1..Len(s) |-> IF s[i] = c THEN d ELSE s[i]]

TrimSuffix(s, p) == IF HasSuffix(s, p) THEN SubSeq(s, 1, Len(s) - Len(p)) ELSE s

(***************************************************************************)
(* Package path/filepath, Unix build.                                       *)
(***************************************************************************)
SEP == <<"/">>
DOT == <<".">>
DOTDOT == <<".",".">>

RECURSIVE Split(_)
Split(s) ==
    LET i == Index(s, SEP)
    IN  IF i < 0 THEN <<s>> ELSE <<SubSeq(s, 1, i)>> \o Split(SubSeq(s, i + 2, Len(s)))

RECURSIVE JoinSegs(_)
JoinSegs(segs) ==
    IF segs = <<>> THEN <<>>
    ELSE IF Len(segs) = 1 THEN segs[1]
    ELSE segs[1] \o SEP \o JoinSegs(Tail(segs))

RECURSIVE CleanFold(_, _, _)
CleanFold(rooted, segs, acc) ==
    IF segs = <<>> THEN acc
    ELSE LET h == Head(segs)
             t == Tail(segs)
         IN  IF h = <<>> \/ h = DOT THEN CleanFold(rooted, t, acc)
             ELSE IF h = DOTDOT
                  THEN IF acc # <<>> /\ acc[Len(acc)] # DOTDOT
                       THEN CleanFold(rooted, t, SubSeq(acc, 1, Len(acc) - 1))
                       ELSE IF rooted THEN CleanFold(rooted, t, acc)
                       ELSE CleanFold(rooted, t, Append(acc, h))
                  ELSE CleanFold(rooted, t, Append(acc, h))

IsAbs(p) == HasPrefix(p, SEP)

\* filepath.Clean
Clean(p) ==
    LET segs == CleanFold(IsAbs(p), Split(p), <<>>)
    IN  IF IsAbs(p) THEN SEP \o JoinSegs(segs)
        ELSE IF segs = <<>> THEN DOT
        ELSE JoinSegs(segs)

\* filepath.Join: the elements before the first non-empty one are dropped
RECURSIVE Join(_)
Join(elems) ==
    IF elems = <<>> THEN <<>>
    ELSE IF Head(elems) = <<>> THEN Join(Tail(elems))
    ELSE Clean(JoinSegs(elems))

\* filepath.Dir
Dir(p) ==
    LET seps == {i \in 1..Len(p) : p[i] = "/"}
    IN  Clean(IF seps = {} THEN <<>> ELSE SubSeq(p, 1, Max(seps)))

\* filepath.Ext: from the last dot of the last element
Ext(p) ==
    LET dots == {i \in 1..Len(p) : p[i] = "." /\ \A j \in i..Len(p) : p[j] # "/"}
    IN  IF dots = {} THEN <<>> ELSE SubSeq(p, Max(dots), Len(p))

\* filepath.Abs in a process whose working directory is wd
Abs(wd, p) == IF IsAbs(p) THEN Clean(p) ELSE Join(<<wd, p>>)

(***************************************************************************)
(* Package pathutil.                                                        *)
(***************************************************************************)
MaxPathLength == 259
LongPathPrefix == <<"\\", "\\", "?", "\\">>

reservedNames ==
    { <<"C","O","N">>, <<"P","R","N">>, <<"A","U","X">>, <<"N","U","L">>,
      <<"C","O","M","1">>, <<"C","O","M","2">>, <<"C","O","M","3">>, <<"C","O","M","4">>, <<"C","O","M","5">>,
      <<"C","O","M","6">>, <<"C","O","M","7">>, <<"C","O","M","8">>, <<"C","O","M","9">>,
      <<"L","P","T","1">>, <<"L","P","T","2">>, <<"L","P","T","3">>, <<"L","P","T","4">>, <<"L","P","T","5">>,
      <<"L","P","T","6">>, <<"L","P","T","7">>, <<"L","P","T","8">>, <<"L","P","T","9">> }

invalidCharsWindows == {"<", ">", ":", "\"", "/", "\\", "|", "?", "*"}

IsWindowsOS == goos = "windows"

LowerCase == <<"a","b","c","d","e","f","g","h","i","j","k","l","m","n","o","p","q","r","s","t","u","v","w","x","y","z">>
UpperCase == <<"A","B","C","D","E","F","G","H","I","J","K","L","M","N","O","P","Q","R","S","T","U","V","W","X","Y","Z">>
ToUpper(s) ==
    [i \in 1..Len(s) |->
        IF \E k \in 1..Len(LowerCase) : LowerCase[k] = s[i]
        THEN UpperCase[CHOOSE k \in 1..Len(LowerCase) : LowerCase[k] = s[i]]
        ELSE s[i]]

\* filepath.Base and filepath.Ext of the Windows build: both "/" and "\" separate
WinIsSep(c) == c = "/" \/ c = "\\"
RECURSIVE WinTrimSeps(_)
WinTrimSeps(s) ==
    IF s # <<>> /\ WinIsSep(s[Len(s)]) THEN WinTrimSeps(SubSeq(s, 1, Len(s) - 1)) ELSE s
WinBase(p) ==
    IF p = <<>> THEN DOT
    ELSE LET q == WinTrimSeps(p)
             seps == {i \in 1..Len(q) : WinIsSep(q[i])}
         IN  IF q = <<>> THEN <<"\\">>
             ELSE IF seps = {} THEN q
             ELSE SubSeq(q, Max(seps) + 1, Len(q))
WinExt(p) ==
    LET dots == {i \in 1..Len(p) : p[i] = "." /\ \A j \in i..Len(p) : ~WinIsSep(p[j])}
    IN  IF dots = {} THEN <<>> ELSE SubSeq(p, Max(dots), Len(p))

\* SanitizeFilename and SanitizePath as the Windows build computes them
\* (IsWindowsOS true; filepath.ToSlash and FromSlash swap "\" and "/")
SanitizeFilenameWindows(filename) ==
    LET trimmed == TrimSpace(filename)
        replaced == [i \in 1..Len(trimmed) |->
                        IF trimmed[i] \in invalidCharsWindows THEN "_" ELSE trimmed[i]]
        base == ToUpper(WinBase(replaced))
        ext == WinExt(base)
        baseWithoutExt == TrimSuffix(base, ext)
    IN  IF baseWithoutExt \in reservedNames
        THEN TrimSuffix(replaced, ext) \o <<"_">> \o ext
        ELSE replaced

SanitizePathWindows(path) ==
    LET parts == Split(ReplaceChar(path, "\\", "/"))
        clean == [i \in 1..Len(parts) |->
                     IF parts[i] # <<>> /\ i > 1 THEN SanitizeFilenameWindows(parts[i])
                     ELSE parts[i]]
        joined == ReplaceChar(JoinSegs(clean), "/", "\\")
    IN  IF Len(joined) > MaxPathLength /\ ~HasPrefix(joined, LongPathPrefix)
        THEN LongPathPrefix \o joined
        ELSE joined

\* SanitizeFilename and SanitizePath as the Unix build computes them (IsWindowsOS
\* false), which is the build the crawl below runs on
SanitizeFilename(filename) == TrimSpace(filename)
SanitizePath(path) == Clean(path)

\* SafeJoin: the join and clean of filepath.Join are those of the Unix build
SafeJoin(elements) ==
    SanitizePath(Join([i \in 1..Len(elements) |-> SanitizeFilename(elements[i])]))

(***************************************************************************)
(* The local file system.  fsd is a set of directories and fsf a map from   *)
(* regular files to contents, keyed by cleaned absolute paths.              *)
(***************************************************************************)
Exists(fsd, fsf, p) == p \in fsd \/ p \in DOMAIN fsf

\* the path and its ancestors, for a cleaned absolute path
Ancestors(p) ==
    {SEP} \cup {SubSeq(p, 1, i) : i \in {j \in 1..Len(p) : j = Len(p) \/ p[j + 1] = "/"}}

\* os.MkdirAll: fails when the path or an ancestor is a regular file
MkdirAllOK(fsd, fsf, p) == Ancestors(p) \cap DOMAIN fsf = {}
MkdirAll(fsd, p) == fsd \cup Ancestors(p)

\* pathutil.EnsureDirectoryExists, called in working directory wd
EnsureOK(wd, fsd, fsf, path) ==
    LET p == Abs(wd, SanitizePath(path))
    IN  IF Exists(fsd, fsf, p) THEN p \in fsd ELSE MkdirAllOK(fsd, fsf, p)
EnsureDirs(wd, fsd, fsf, path) ==
    LET p == Abs(wd, SanitizePath(path))
    IN  IF EnsureOK(wd, fsd, fsf, path) /\ ~Exists(fsd, fsf, p) THEN MkdirAll(fsd, p) ELSE fsd

\* pathutil.SafeCreateFile: the parent directory is ensured, then os.Create
CreateOK(wd, fsd, fsf, path) ==
    LET sp == SanitizePath(path)
    IN  /\ EnsureOK(wd, fsd, fsf, Dir(sp))
        /\ Abs(wd, sp) \notin EnsureDirs(wd, fsd, fsf, Dir(sp))
WriteFile(fsf, p, content) ==
    [q \in DOMAIN fsf \cup {p} |-> IF q = p THEN content ELSE fsf[q]]

(***************************************************************************)
(* The remote repository manager.  A site maps URLs to index pages (their   *)
(* lines) and to files; every other URL answers 404.                        *)
(***************************************************************************)
QUOTE == <<"\"">>

\* a listing line in the documented shape, <a href="V">L</a>
Anchor(V, L) == <<"<","a"," ","h","r","e","f","=">> \o QUOTE \o V \o QUOTE \o <<">">> \o L \o <<"<","/","a",">">>

\* a listing line whose href value is not opened by a quote, <a href=:V">L</a>
ShiftedAnchor(V, L) == <<"<","a"," ","h","r","e","f","=",":">> \o V \o QUOTE \o <<">">> \o L \o <<"<","/","a",">">>

ArtiURLs == <<"h","t","t","p",":","/","/","h","/">>

Page(u, ls) == [url |-> u, kind |-> "index", lines |-> ls]
File(u) == [url |-> u, kind |-> "file", lines |-> <<>>]

\* root/ holds a.jar and sub/, sub/ holds b.pom; listing lines in the documented shape
SiteStd ==
    { Page(<<"h","t","t","p",":","/","/","h","/","r","o","o","t","/">>, << Anchor(<<"a",".","j","a","r">>, <<"a",".","j","a","r">>), Anchor(<<"s","u","b","/">>, <<"s","u","b","/">>) >>),
      Page(<<"h","t","t","p",":","/","/","h","/","r","o","o","t","/","s","u","b","/">>, << Anchor(<<"b",".","p","o","m">>, <<"b",".","p","o","m">>) >>),
      File(<<"h","t","t","p",":","/","/","h","/","r","o","o","t","/","a",".","j","a","r">>),
      File(<<"h","t","t","p",":","/","/","h","/","r","o","o","t","/","s","u","b","/","b",".","p","o","m">>) }

\* the same tree with more entries and a second repository, in the shifted shape;
\* r2/ lists x.pom, which the server does not have
SiteShifted ==
    { Page(<<"h","t","t","p",":","/","/","h","/","r","o","o","t","/">>,
           << <<"<","h","t","m","l",">">>,
              ShiftedAnchor(<<"a",".","j","a","r">>, <<"a",".","j","a","r">>),
              ShiftedAnchor(<<".",".","/">>, <<".",".","/">>),
              ShiftedAnchor(<<"s","u","b","/">>, <<"s","u","b","/">>),
              ShiftedAnchor(<<".","/","c",".","j","a","r">>, <<"c",".","j","a","r">>),
              ShiftedAnchor(<<".",".","/","e",".","j","a","r">>, <<".",".","/","e",".","j","a","r">>) >>),
      Page(<<"h","t","t","p",":","/","/","h","/","r","o","o","t","/","s","u","b","/">>, << ShiftedAnchor(<<"b",".","p","o","m">>, <<"b",".","p","o","m">>) >>),
      Page(<<"h","t","t","p",":","/","/","h","/","r","2","/">>, << ShiftedAnchor(<<"d",".","j","a","r">>, <<"d",".","j","a","r">>),
                                 ShiftedAnchor(<<"x",".","p","o","m">>, <<"x",".","p","o","m">>) >>),
      File(<<"h","t","t","p",":","/","/","h","/","r","o","o","t","/","a",".","j","a","r">>),
      File(<<"h","t","t","p",":","/","/","h","/","r","o","o","t","/",".","/","c",".","j","a","r">>),
      File(<<"h","t","t","p",":","/","/","h","/","r","o","o","t","/",".",".","/","e",".","j","a","r">>),
      File(<<"h","t","t","p",":","/","/","h","/","r","o","o","t","/","s","u","b","/","b",".","p","o","m">>),
      File(<<"h","t","t","p",":","/","/","h","/","r","2","/","d",".","j","a","r">>) }

\* root/ holds maven-metadata.xml beside a.jar and sub/
SiteMeta ==
    { Page(<<"h","t","t","p",":","/","/","h","/","r","o","o","t","/">>,
           << ShiftedAnchor(<<"m","a","v","e","n","-","m","e","t","a","d","a","t","a",".","x","m","l">>, <<"m","a","v","e","n","-","m","e","t","a","d","a","t","a",".","x","m","l">>),
              ShiftedAnchor(<<"a",".","j","a","r">>, <<"a",".","j","a","r">>),
              ShiftedAnchor(<<"s","u","b","/">>, <<"s","u","b","/">>) >>),
      Page(<<"h","t","t","p",":","/","/","h","/","r","o","o","t","/","s","u","b","/">>, << ShiftedAnchor(<<"b",".","p","o","m">>, <<"b",".","p","o","m">>) >>),
      File(<<"h","t","t","p",":","/","/","h","/","r","o","o","t","/","m","a","v","e","n","-","m","e","t","a","d","a","t","a",".","x","m","l">>),
      File(<<"h","t","t","p",":","/","/","h","/","r","o","o","t","/","a",".","j","a","r">>),
      File(<<"h","t","t","p",":","/","/","h","/","r","o","o","t","/","s","u","b","/","b",".","p","o","m">>) }

\* candidate lines that are not well formed: no quote at all, no ">", no "</a>",
\* and an href whose closing quote is missing
NoQuoteLine == <<"<","a"," ","h","r","e","f","=","x",".","j","a","r",">","x",".","j","a","r","<","/","a",">">>
NoGtLine == <<"<","a"," ","h","r","e","f","=",":","y",".","j","a","r">> \o QUOTE
NoEndLine == <<"<","a"," ","h","r","e","f","=",":","z",".","j","a","r">> \o QUOTE \o <<">","z",".","j","a","r">>
NoClosingQuoteLine == <<"<","a"," ","h","r","e","f","=">> \o QUOTE \o <<"w",".","j","a","r",">","w",".","j","a","r","<","/","a",">">>

\* root/ lists a.jar among lines that are not well formed
SiteOdd ==
    { Page(<<"h","t","t","p",":","/","/","h","/","r","o","o","t","/">>,
           << NoQuoteLine, NoGtLine, NoEndLine,
              ShiftedAnchor(<<"a",".","j","a","r">>, <<"a",".","j","a","r">>),
              NoClosingQuoteLine,
              ShiftedAnchor(<<"s","u","b","/">>, <<"s","u","b","/">>) >>),
      Page(<<"h","t","t","p",":","/","/","h","/","r","o","o","t","/","s","u","b","/">>, << ShiftedAnchor(<<"b",".","p","o","m">>, <<"b",".","p","o","m">>) >>),
      File(<<"h","t","t","p",":","/","/","h","/","r","o","o","t","/","a",".","j","a","r">>),
      File(<<"h","t","t","p",":","/","/","h","/","r","o","o","t","/","s","u","b","/","b",".","p","o","m">>) }

Sites == {"std", "shifted"}
SitePages(s) ==
    IF s = "std" THEN SiteStd
    ELSE IF s = "shifted" THEN SiteShifted
    ELSE IF s = "meta" THEN SiteMeta
    ELSE SiteOdd
SiteRepos(s) == IF s = "shifted" THEN << <<"r","o","o","t","/">>, <<" ">>, <<"r","2","/">> >> ELSE << <<"r","o","o","t","/">> >>

Remote(s, u) ==
    IF \E r \in SitePages(s) : r.url = u
    THEN CHOOSE r \in SitePages(s) : r.url = u
    ELSE [url |-> u, kind |-> "none", lines |-> <<>>]

\* the lines bufio.Scanner yields for a local file holding the body fetched from u
Lines(content) == Remote(site, content).lines

(***************************************************************************)
(* The process environment.                                                 *)
(***************************************************************************)
InitCwd == <<"/","w">>
HomeDir == <<"/","h">>
Getenv(name) == IF name = "HOME" THEN HomeDir ELSE <<>>

(***************************************************************************)
(* Package crawler: the pure parts.                                         *)
(***************************************************************************)
FilterModeNone == "none"
FilterModeWhitelist == "whitelist"
FilterModeBlacklist == "blacklist"

\* the outcome of the extraction ParseIndex performs on one scanned line
SkipLine == [kind |-> "skip", href |-> <<>>, label |-> <<>>]
PanicLine == [kind |-> "panic", href |-> <<>>, label |-> <<>>]
EntryLine(h, l) == [kind |-> "entry", href |-> h, label |-> l]

IsCandidate(line) == HasPrefix(line, <<"<","a"," ","h","r","e","f","=">>) \/ HasPrefix(line, <<"<","p","r","e",">","<","a"," ","h","r","e","f","=">>)

Extract(text) ==
    LET line == TrimLeftBlank(RemoveChar(text, "\t"))
        hrefStartIndex == Index(line, <<"h","r","e","f","=">>) + Len(<<"h","r","e","f","=">>)
        hrefRel == Index(Slice(line, hrefStartIndex, Len(line)), QUOTE)
        hrefEndIndex == hrefRel + hrefStartIndex
        elStartIndex == Index(line, <<">">>) + 1
        elRel == Index(Slice(line, elStartIndex, Len(line)), <<"<","/","a",">">>)
        elEndIndex == elRel + elStartIndex
    IN  IF ~IsCandidate(line) THEN SkipLine
        ELSE IF hrefStartIndex < Len(<<"h","r","e","f","=">>) THEN SkipLine
        ELSE IF hrefRel < 0 THEN SkipLine
        ELSE IF ~SliceOK(line, hrefStartIndex + 1, hrefEndIndex) THEN PanicLine
        ELSE IF elStartIndex < 1 THEN SkipLine
        ELSE IF elRel < 0 THEN SkipLine
        ELSE EntryLine(Slice(line, hrefStartIndex + 1, hrefEndIndex),
                       Slice(line, elStartIndex, elEndIndex))

\* whether filePath ends with an extension of the list
SuffixInList(list, filePath) == \E i \in 1..Len(list) : HasSuffix(filePath, list[i])

\* a test that compares the extension only
ExtOnlyInList(list, ext, filePath) == \E i \in 1..Len(list) : ext = list[i]

\* whether ext is an extension of the list, or filePath ends with one
ExtInList(list, ext, filePath) ==
    \E i \in 1..Len(list) : ext = list[i] \/ HasSuffix(filePath, list[i])

\* an override that asks for the bare name
MetadataOverrideExact(on, filePath) == on /\ filePath = <<"m","a","v","e","n","-","m","e","t","a","d","a","t","a",".","x","m","l">>

\* the special case for maven-metadata.xml, when the switch on is set
MetadataOverride(on, filePath) == on /\ HasSuffix(filePath, <<"m","a","v","e","n","-","m","e","t","a","d","a","t","a",".","x","m","l">>)

shouldDownloadFile(filePath) ==
    LET ext0 == Ext(filePath)
        ext == IF ext0 = <<>> /\ HasSuffix(filePath, <<".","t","a","r",".","g","z">>) THEN <<".","t","a","r",".","g","z">> ELSE ext0
    IN  IF MetadataOverride(cfg.IncludeMavenMetadata, filePath) THEN TRUE
        ELSE IF ext = <<>> THEN cfg.FilterMode # FilterModeWhitelist
        ELSE IF cfg.FilterMode = FilterModeNone
             THEN SuffixInList(cfg.FileTypes, filePath)
        ELSE IF cfg.FilterMode = FilterModeWhitelist
             THEN ExtInList(cfg.Extensions, ext, filePath)
        ELSE IF cfg.FilterMode = FilterModeBlacklist
             THEN ~ExtInList(cfg.Extensions, ext, filePath)
        ELSE FALSE

\* config.FileTypesDefault, split at its commas
FileTypesDefault ==
    << <<".","p","o","m">>, <<".","j","a","r">>, <<".","w","a","r">>, <<".","x","m","l">>, <<".","z","i","p">>, <<".","t","a","r">>, <<".","t","a","r",".","g","z">> >>

\* Config.GetFilterMode: a mode that is not valid counts as none
GetFilterMode(mode) ==
    IF mode \in {FilterModeNone, FilterModeWhitelist, FilterModeBlacklist}
    THEN mode ELSE FilterModeNone

\* Config.GetFileTypesList, on the list the file types string splits into; the
\* empty list stands for the empty string, which is replaced by the default
GetFileTypesList(fileTypes) == IF fileTypes = <<>> THEN FileTypesDefault ELSE fileTypes

\* Config.ShouldIncludeFile, on the settings the record c holds
ShouldIncludeFile(c, filename) ==
    LET ext0 == Ext(filename)
        ext == IF ext0 = <<>> /\ HasSuffix(filename, <<".","t","a","r",".","g","z">>) THEN <<".","t","a","r",".","g","z">> ELSE ext0
        mode == GetFilterMode(c.FilterMode)
    IN  IF MetadataOverride(c.IncludeMavenMetadata, filename) THEN TRUE
        ELSE IF ext = <<>> THEN mode # FilterModeWhitelist
        ELSE IF mode = FilterModeNone
             THEN SuffixInList(GetFileTypesList(c.FileTypes), filename)
        ELSE IF mode = FilterModeWhitelist
             THEN ExtInList(c.Extensions, ext, filename)
        ELSE ~ExtInList(c.Extensions, ext, filename)

(***************************************************************************)
(* downloadFile.  One call is the record dl; its retry loop runs one        *)
(* iteration per step.                                                      *)
(***************************************************************************)
StatusOK == 200

NoErr == [kind |-> "nil", code |-> 0]
TransportErr == [kind |-> "transport", code |-> 0]
StatusErr(c) == [kind |-> "status", code |-> c]
FsErr == [kind |-> "fs", code |-> 0]

\* what client.Do returns: a transport error, or a response with a status code
NetFail == [err |-> TRUE, status |-> 0]
Resp(c) == [err |-> FALSE, status |-> c]
Failed(o) == o.err \/ o.status # StatusOK

IdleDl ==
    [pc |-> "idle", who |-> "none", filepath |-> <<>>, urlStr |-> <<>>, attempt |-> 0,
     broke |-> FALSE, lastErr |-> NoErr, outs |-> <<>>, sleeps |-> 0, created |-> FALSE,
     ret |-> NoErr]

\* the call downloadFile(filepath, urlStr) made on behalf of who: main, sub or file
NewDl(who, filepath, urlStr) ==
    [IdleDl EXCEPT !.pc = "loop", !.who = who, !.filepath = filepath, !.urlStr = urlStr]

\* the answers the server can give to a GET of u
Outcomes(u) ==
    IF Remote(site, u).kind = "none" THEN {Resp(404)}
    ELSE {Resp(StatusOK)} \cup (IF httpFails < MaxHttpFails THEN {Resp(500), NetFail} ELSE {})

\* the error of a failed attempt
AttemptErr(o) == IF o.err THEN TransportErr ELSE StatusErr(o.status)

\* a loop that sleeps after every failed attempt, the final one included
SleepsAfterEvery(attempt) == attempt < cfg.RetryAttempts

\* whether the loop sleeps after the failed attempt numbered attempt (0-based)
SleepsAfter(attempt) == attempt < cfg.RetryAttempts - 1

\* a downloadFile that keeps the error of its first failed attempt
FirstAttemptErr(d) ==
    IF \E i \in 1..Len(d.outs) : Failed(d.outs[i])
    THEN AttemptErr(d.outs[CHOOSE i \in 1..Len(d.outs) :
                               Failed(d.outs[i]) /\ \A j \in 1..(i - 1) : ~Failed(d.outs[j])])
    ELSE NoErr

\* the error downloadFile returns after its loop, before it touches the response
AfterLoopErr(d) == d.lastErr

Top == stack[Len(stack)]

\* one iteration of the retry loop: the request, the error bookkeeping, the sleep
DownloadAttempt ==
    /\ result = "running"
    /\ dl.pc = "loop"
    /\ ~dl.broke
    /\ dl.attempt < cfg.RetryAttempts
    /\ \E o \in Outcomes(dl.urlStr) :
        /\ dl' = IF ~Failed(o)
                 THEN [dl EXCEPT !.broke = TRUE, !.outs = Append(@, o)]
                 ELSE [dl EXCEPT !.lastErr = AttemptErr(o),
                                 !.outs = Append(@, o),
                                 !.sleeps = IF SleepsAfter(dl.attempt) THEN @ + 1 ELSE @,
                                 !.attempt = @ + 1]
        /\ httpFails' = IF Failed(o) /\ Remote(site, dl.urlStr).kind # "none"
                        THEN httpFails + 1 ELSE httpFails
        /\ hist' = [hist EXCEPT !.reqs = @ \cup
                       {[run |-> run, who |-> dl.who, url |-> dl.urlStr, ok |-> ~Failed(o),
                         entry |-> IF dl.who = "main" THEN <<>> ELSE Top.label]}]
    /\ UNCHANGED <<locked, toml, probe, goos, cfg, site, repoList, run, cwd, dirs, files, htmlFiles, failLog,
                   prpc, repoIdx, cleanIdx, stack, result>>

\* after the loop: return the recorded error, or create the file and copy the body
DownloadFinish ==
    /\ result = "running"
    /\ dl.pc = "loop"
    /\ dl.broke \/ dl.attempt >= cfg.RetryAttempts
    /\ LET safeFilepath == SanitizeFilename(dl.filepath)
           target == Abs(cwd, SanitizePath(safeFilepath))
       IN  IF AfterLoopErr(dl) # NoErr
           THEN /\ dl' = [dl EXCEPT !.pc = "ret", !.ret = AfterLoopErr(dl)]
                /\ UNCHANGED <<dirs, files, result, hist>>
           ELSE IF ~dl.broke
           THEN \* resp is nil: defer resp.Body.Close() dereferences it
                /\ result' = "panic"
                /\ UNCHANGED <<dl, dirs, files, hist>>
           ELSE IF ~CreateOK(cwd, dirs, files, safeFilepath)
           THEN /\ dl' = [dl EXCEPT !.pc = "ret", !.ret = FsErr]
                /\ dirs' = EnsureDirs(cwd, dirs, files, Dir(SanitizePath(safeFilepath)))
                /\ UNCHANGED <<files, result, hist>>
           ELSE /\ dl' = [dl EXCEPT !.pc = "ret", !.ret = NoErr, !.created = TRUE]
                /\ dirs' = EnsureDirs(cwd, dirs, files, Dir(SanitizePath(safeFilepath)))
                /\ files' = WriteFile(files, target, dl.urlStr)
                /\ hist' = IF dl.who = "file"
                           THEN [hist EXCEPT !.written = @ \cup
                                    {[run |-> run, dir |-> Top.dirAbs,
                                      label |-> dl.filepath, at |-> target]}]
                           ELSE hist
                /\ UNCHANGED result
    /\ UNCHANGED <<locked, toml, probe, goos, cfg, site, repoList, run, cwd, htmlFiles, failLog,
                   prpc, repoIdx, cleanIdx, stack, httpFails>>

(***************************************************************************)
(* ParseIndex.  One call is a frame of stack; its scan loop handles one     *)
(* line per step and waits while a downloadFile or a nested ParseIndex runs.*)
(***************************************************************************)
NewFrame(file, safePath, artiURL, content, dirAbs) ==
    [file |-> file, safePath |-> safePath, artiURL |-> artiURL, content |-> content,
     idx |-> 1, dirAbs |-> dirAbs, wait |-> "none",
     href |-> <<>>, label |-> <<>>, dirPath |-> <<>>, indexName |-> <<>>]

Advance(f) == [f EXCEPT !.idx = @ + 1, !.wait = "none"]
ReplaceTop(f) == [stack EXCEPT ![Len(stack)] = f]
Below == SubSeq(stack, 1, Len(stack) - 1)

\* a ParseIndex that does not record the index file
LedgerKeep(ledger, absPath) == ledger

\* the ledger after ParseIndex recorded the index file at absPath
LedgerAppend(ledger, absPath) == Append(ledger, absPath)

\* os.Chdir(path) in working directory wd: the directory is there and may be entered
ChdirOK(wd, fsd, path) == Abs(wd, path) \in fsd \ locked

\* whether ParseIndex(file, path, ...) gets past os.Open and os.Chdir
ParseIndexStarts(file, path) ==
    /\ Abs(cwd, SanitizePath(file)) \in DOMAIN files
    /\ ChdirOK(cwd, dirs, SanitizePath(path))

\* the call ParseIndex(file, path, artiURL) up to its scan loop; the stack becomes
\* started when the scan begins and returned when the call returns an error at once
CallParseIndex(file, path, artiURL, started, returned) ==
    LET safeFile == SanitizePath(file)
        safePath == SanitizePath(path)
        absPath == Abs(cwd, safeFile)
        target == Abs(cwd, safePath)
    IN  /\ htmlFiles' = LedgerAppend(htmlFiles, absPath)
        /\ hist' = [hist EXCEPT !.parsed = @ \cup {[run |-> run, path |-> absPath]},
                                !.pages = IF ParseIndexStarts(file, path)
                                          THEN Append(@, [run |-> run, url |-> files[absPath]])
                                          ELSE @]
        /\ IF ParseIndexStarts(file, path)
           THEN /\ cwd' = target
                /\ stack' = Append(started,
                                   NewFrame(file, safePath, artiURL, files[absPath], target))
           ELSE /\ cwd' = cwd
                /\ stack' = returned

\* a line that names the href where the label belongs
FailLogLineByHref(elValue, urlStr) ==
    [timeout |-> cfg.Timeout, tries |-> cfg.RetryAttempts, O |-> Top.href, url |-> urlStr]

\* the line appended to the failure log for a failed download
FailLogLine(elValue, urlStr) ==
    [timeout |-> cfg.Timeout, tries |-> cfg.RetryAttempts, O |-> elValue, url |-> urlStr]

FailLogPath ==
    SafeJoin(<<Getenv(IF IsWindowsOS THEN "USERPROFILE" ELSE "HOME"),
               <<"D","o","c","u","m","e","n","t","s">>, <<"E","X","P","O","R","T","_","A","R","T","I">>, <<"f","a","i","l","e","d","_","d","o","w","n","l","o","a","d",".","t","x","t">>>>)

\* whether the failure log can be opened for appending in working directory wd
FailLogOpens(wd, fsd, fsf) ==
    /\ EnsureOK(wd, fsd, fsf, Dir(FailLogPath))
    /\ Abs(wd, FailLogPath) \notin EnsureDirs(wd, fsd, fsf, Dir(FailLogPath))

\* whether the existence check of a file entry finds the target
AlreadyThere(safePath, elValue) ==
    Exists(dirs, files, Abs(cwd, SafeJoin(<<safePath, elValue>>)))

\* the entries ParseIndex refuses to traverse as a subdirectory
RefusedDir(elValue) == Contains(elValue, DOTDOT)

\* the scan loop goes on with the next line
NextLine ==
    /\ stack' = ReplaceTop(Advance(Top))
    /\ UNCHANGED <<cwd, dirs, dl, result>>

\* an entry the filter accepts whose label does not end with a separator
FileEntry(urlValue, elValue) ==
    IF ~cfg.ForceReplace /\ AlreadyThere(Top.safePath, elValue)
    THEN NextLine
    ELSE /\ dl' = NewDl("file", elValue, Top.artiURL \o urlValue)
         /\ stack' = ReplaceTop([Top EXCEPT !.wait = "file",
                                   !.href = urlValue, !.label = elValue])
         /\ UNCHANGED <<cwd, dirs, result>>

\* a ParseIndex that gives up the rest of its page with the subdirectory
AfterFailedEntryStop(f) == [f EXCEPT !.idx = Len(Lines(f.content)) + 1, !.wait = "none"]

\* the frame of a ParseIndex after it gave up a subdirectory entry: the continue
\* statements of the directory branch, and the end of the loop body after a
\* recursive call that returned an error
AfterFailedEntry(f) == Advance(f)

\* an entry the filter rejects: a subdirectory
DirEntry(urlValue, elValue, dirPath, indexName) ==
    IF RefusedDir(elValue) THEN NextLine
    ELSE IF ~EnsureOK(cwd, dirs, files, dirPath)
    THEN /\ stack' = ReplaceTop(AfterFailedEntry(Top))
         /\ UNCHANGED <<cwd, dirs, dl, result>>
    ELSE IF ~ChdirOK(cwd, EnsureDirs(cwd, dirs, files, dirPath), dirPath)
    THEN /\ dirs' = EnsureDirs(cwd, dirs, files, dirPath)
         /\ stack' = ReplaceTop(AfterFailedEntry(Top))
         /\ UNCHANGED <<cwd, dl, result>>
    ELSE /\ dirs' = EnsureDirs(cwd, dirs, files, dirPath)
         /\ cwd' = Abs(cwd, dirPath)
         /\ dl' = NewDl("sub", indexName, Top.artiURL \o urlValue)
         /\ stack' = ReplaceTop([Top EXCEPT !.wait = "sub", !.href = urlValue,
                                   !.label = elValue, !.dirPath = dirPath,
                                   !.indexName = indexName])
         /\ UNCHANGED result

\* what the scan loop does with the outcome e of the extraction
HandleLine(e) ==
    IF e.kind = "skip" THEN NextLine
    ELSE IF e.kind = "panic"
    THEN /\ result' = "panic"
         /\ UNCHANGED <<cwd, dirs, dl, stack>>
    ELSE IF shouldDownloadFile(e.href)
    THEN IF ~HasSuffix(e.label, SEP) THEN FileEntry(e.href, e.label) ELSE NextLine
    ELSE DirEntry(e.href, e.label,
                  SafeJoin(<<Top.safePath, e.label>>),
                  SanitizeFilename(RemoveChar(e.label, "/") \o <<"-","i","n","d","e","x",".","h","t","m","l">>))

\* one iteration of the scan loop, up to the call of downloadFile it makes, if any
ParseLine ==
    /\ result = "running"
    /\ stack # <<>>
    /\ dl.pc = "idle"
    /\ Top.wait = "none"
    /\ Top.idx <= Len(Lines(Top.content))
    /\ HandleLine(Extract(Lines(Top.content)[Top.idx]))
    /\ hist' = [hist EXCEPT !.last = [text |-> Lines(Top.content)[Top.idx],
                                      e |-> Extract(Lines(Top.content)[Top.idx]),
                                      sleeps |-> 0]]
    /\ UNCHANGED <<locked, toml, probe, goos, cfg, site, repoList, run, files, htmlFiles, failLog,
                   prpc, repoIdx, cleanIdx, httpFails>>

\* a ParseIndex that sleeps after a successful download only
SleepsAfterSuccess(err, sleeps) == IF err = NoErr THEN sleeps + 1 ELSE sleeps

\* the sleeps ParseIndex has made for the scanned line once downloadFile returned err:
\* time.Sleep(Delay) follows the call whatever it returned
SleepsAfterDownload(err, sleeps) == sleeps + 1

\* the download of a file entry returned: log a failure, sleep, go on with the next line
FileDownloaded ==
    /\ result = "running"
    /\ stack # <<>>
    /\ dl.pc = "ret"
    /\ dl.who = "file"
    /\ dl' = IdleDl
    /\ stack' = ReplaceTop(Advance(Top))
    /\ IF dl.ret # NoErr /\ FailLogOpens(cwd, dirs, files)
       THEN /\ dirs' = EnsureDirs(cwd, dirs, files, Dir(FailLogPath))
            /\ files' = WriteFile(files, Abs(cwd, FailLogPath), <<"f","a","i","l","e","d","_","d","o","w","n","l","o","a","d",".","t","x","t">>)
            /\ failLog' = Append(failLog, FailLogLine(Top.label, Top.artiURL \o Top.href))
       ELSE UNCHANGED <<dirs, files, failLog>>
    /\ hist' = [hist EXCEPT !.last.sleeps = SleepsAfterDownload(dl.ret, @)]
    /\ UNCHANGED <<locked, toml, probe, goos, cfg, site, repoList, run, cwd, htmlFiles,
                   prpc, repoIdx, cleanIdx, result, httpFails>>

\* the download of a sub-index returned: give the entry up, or parse the sub-index
SubIndexDownloaded ==
    /\ result = "running"
    /\ stack # <<>>
    /\ dl.pc = "ret"
    /\ dl.who = "sub"
    /\ dl' = IdleDl
    /\ IF dl.ret # NoErr
       THEN /\ stack' = ReplaceTop(AfterFailedEntry(Top))
            /\ UNCHANGED <<cwd, htmlFiles, hist>>
       ELSE CallParseIndex(Top.indexName, Join(<<Top.dirPath, SEP>>), Top.artiURL \o Top.href,
                           ReplaceTop([Top EXCEPT !.wait = "rec"]),
                           ReplaceTop(AfterFailedEntry(Top)))
    /\ UNCHANGED <<locked, toml, probe, goos, cfg, site, repoList, run, dirs, files, failLog,
                   prpc, repoIdx, cleanIdx, result, httpFails>>

\* the scan reached the end of the page: ParseIndex returns nil to its caller
ParseIndexReturn ==
    /\ result = "running"
    /\ stack # <<>>
    /\ dl.pc = "idle"
    /\ Top.wait = "none"
    /\ Top.idx > Len(Lines(Top.content))
    /\ IF Len(stack) = 1
       THEN /\ stack' = <<>>
            /\ prpc' = "loop"
            /\ repoIdx' = repoIdx + 1
       ELSE /\ stack' = [Below EXCEPT ![Len(stack) - 1] = Advance(@)]
            /\ UNCHANGED <<prpc, repoIdx>>
    /\ UNCHANGED <<locked, toml, probe, goos, cfg, site, repoList, run, cwd, dirs, files, htmlFiles, failLog,
                   cleanIdx, dl, result, httpFails, hist>>

(***************************************************************************)
(* ProcessRepositories and CleanupHTMLFiles.                                *)
(***************************************************************************)
SafeBaseDir == SanitizePath(cfg.BaseDir)
ExportDir == Join(<<Getenv("USERPROFILE"), <<"D","o","c","u","m","e","n","t","s">>, <<"E","X","P","O","R","T","_","A","R","T","I">>>>)
MainIndexName(repo) == ReplaceChar(repo, "/", "_") \o <<"-","i","n","d","e","x",".","h","t","m","l">>

\* the two directories are ensured; a failure is returned as an error
ProcessRepositoriesStart ==
    /\ result = "running"
    /\ prpc = "start"
    /\ IF ~EnsureOK(cwd, dirs, files, SafeBaseDir)
       THEN /\ result' = "error"
            /\ UNCHANGED <<dirs, prpc>>
       ELSE LET d1 == EnsureDirs(cwd, dirs, files, SafeBaseDir)
                exp == Abs(cwd, ExportDir)
            IN  IF ~MkdirAllOK(d1, files, exp)
                THEN /\ result' = "error"
                     /\ dirs' = d1
                     /\ UNCHANGED prpc
                ELSE /\ dirs' = MkdirAll(d1, exp)
                     /\ prpc' = "loop"
                     /\ UNCHANGED result
    /\ UNCHANGED <<locked, toml, probe, goos, cfg, site, repoList, run, cwd, files, htmlFiles, failLog,
                   repoIdx, cleanIdx, stack, dl, httpFails, hist>>

\* one iteration of the loop over the repositories, up to the download of the index
RepoNext ==
    /\ result = "running"
    /\ prpc = "loop"
    /\ repoIdx <= Len(repoList)
    /\ LET repo == TrimSpace(repoList[repoIdx])
           repoDir == Join(<<SafeBaseDir, repo>>)
           parent == Abs(cwd, Dir(repoDir))
       IN  IF repo = <<>>
           THEN /\ repoIdx' = repoIdx + 1
                /\ UNCHANGED <<dirs, dl, prpc, hist>>
           ELSE /\ hist' = [hist EXCEPT !.attempted = @ \cup {<<run, repoIdx>>}]
                /\ IF ~MkdirAllOK(dirs, files, parent)
                   THEN /\ repoIdx' = repoIdx + 1
                        /\ UNCHANGED <<dirs, dl, prpc>>
                   ELSE /\ dirs' = MkdirAll(dirs, parent)
                        /\ dl' = NewDl("main", MainIndexName(repo), cfg.ArtiURL \o repo)
                        /\ prpc' = "dlmain"
                        /\ UNCHANGED repoIdx
    /\ UNCHANGED <<locked, toml, probe, goos, cfg, site, repoList, run, cwd, files, htmlFiles, failLog,
                   cleanIdx, stack, result, httpFails>>

\* the download of a repository's index returned: next repository, or parse the index
MainIndexDownloaded ==
    /\ result = "running"
    /\ prpc = "dlmain"
    /\ dl.pc = "ret"
    /\ dl.who = "main"
    /\ dl' = IdleDl
    /\ LET repo == TrimSpace(repoList[repoIdx])
       IN  IF dl.ret # NoErr
           THEN /\ repoIdx' = repoIdx + 1
                /\ prpc' = "loop"
                /\ UNCHANGED <<cwd, htmlFiles, stack, hist>>
           ELSE /\ CallParseIndex(MainIndexName(repo), SafeBaseDir \o SEP, cfg.ArtiURL \o repo,
                                  <<>>, <<>>)
                /\ IF ParseIndexStarts(MainIndexName(repo), SafeBaseDir \o SEP)
                   THEN /\ prpc' = "parse"
                        /\ UNCHANGED repoIdx
                   ELSE /\ prpc' = "loop"
                        /\ repoIdx' = repoIdx + 1
    /\ UNCHANGED <<locked, toml, probe, goos, cfg, site, repoList, run, dirs, files, failLog,
                   cleanIdx, result, httpFails>>

\* one iteration of CleanupHTMLFiles: os.Remove of one ledger entry, which may fail
CleanupStep ==
    /\ result = "running"
    /\ prpc = "loop"
    /\ repoIdx > Len(repoList)
    /\ cleanIdx <= Len(htmlFiles)
    /\ LET safeFile == Abs(cwd, SanitizePath(htmlFiles[cleanIdx]))
       IN  /\ \/ /\ safeFile \in DOMAIN files
                 /\ files' = [p \in DOMAIN files \ {safeFile} |-> files[p]]
              \/ UNCHANGED files
           /\ hist' = [hist EXCEPT !.removeTried = @ \cup {<<run, safeFile>>}]
    /\ cleanIdx' = cleanIdx + 1
    /\ UNCHANGED <<locked, toml, probe, goos, cfg, site, repoList, run, cwd, dirs, htmlFiles, failLog,
                   prpc, repoIdx, stack, dl, result, httpFails>>

\* the cleanup is over: ProcessRepositories returns nil
ProcessRepositoriesReturn ==
    /\ result = "running"
    /\ prpc = "loop"
    /\ repoIdx > Len(repoList)
    /\ cleanIdx > Len(htmlFiles)
    /\ result' = "ok"
    /\ prpc' = "done"
    /\ UNCHANGED <<locked, toml, probe, goos, cfg, site, repoList, run, cwd, dirs, files, htmlFiles, failLog,
                   repoIdx, cleanIdx, stack, dl, httpFails, hist>>

\* the same crawl is started again, as a new process over the file system left behind
RunAgain ==
    /\ result = "ok"
    /\ run < MaxRuns
    /\ run' = run + 1
    /\ cwd' = InitCwd
    /\ htmlFiles' = <<>>
    /\ prpc' = "start"
    /\ repoIdx' = 1
    /\ cleanIdx' = 1
    /\ stack' = <<>>
    /\ dl' = IdleDl
    /\ result' = "running"
    /\ UNCHANGED <<locked, toml, probe, goos, cfg, site, repoList, dirs, files, failLog, httpFails, hist>>

(***************************************************************************)
(* The initial states: a configuration, a remote, and the file system       *)
(* before the first run.                                                    *)
(***************************************************************************)
DefaultTimeout == 10
DefaultDelay == 1

BaseDirs == { <<"/","o","u","t">>, <<"d","o","w","n","l","o","a","d","s">> }
FilterModes == {FilterModeNone, FilterModeWhitelist, FilterModeBlacklist}
Blockers == {"none", "basedir", "exportdir", "faillog", "subdir", "locked"}

\* a regular file that stands where the run wants a directory
BlockerFiles(b, baseDir) ==
    IF b = "basedir" THEN {Abs(InitCwd, baseDir)}
    ELSE IF b = "exportdir" THEN {Abs(InitCwd, <<"D","o","c","u","m","e","n","t","s">>)}
    ELSE IF b = "faillog" THEN {Abs(HomeDir, <<"D","o","c","u","m","e","n","t","s">>)}
    ELSE IF b = "subdir" THEN {Join(<<Abs(InitCwd, baseDir), <<"s","u","b">>>>)}
    ELSE {}

\* a directory that stands where the run wants one, but cannot be changed into
LockedDirs(b, baseDir) ==
    IF b = "locked" THEN {Join(<<Abs(InitCwd, baseDir), <<"s","u","b">>>>)} ELSE {}

\* the directories that hold the blocker
BlockerDirs(b, baseDir) ==
    IF b \in {"subdir", "locked"} THEN {Abs(InitCwd, baseDir)} \cup LockedDirs(b, baseDir) ELSE {}

\* files.include_maven_metadata and files.clean_html_files as setDefaults sets them
TomlDefaults == [include_maven_metadata |-> TRUE, clean_html_files |-> TRUE]

\* no library function has been applied
NoProbe == [op |-> "none"]

\* a run of the crawler main constructs, against one of the sites and started
\* with one of the settings tomls; fails: the transient HTTP failures the server
\* has already used up
InitRun(fails, sites, tomls) ==
    /\ goos = "linux"
    /\ site \in sites
    /\ repoList = SiteRepos(site)
    /\ \E n \in 0..MaxRetryAttempts, force \in BOOLEAN, base \in BaseDirs,
          mode \in FilterModes, b \in Blockers :
        /\ cfg = [ArtiURL |-> ArtiURLs, BaseDir |-> base,
                  FileTypes |-> << <<".","j","a","r">>, <<".","p","o","m">> >>,
                  ForceReplace |-> force, RetryAttempts |-> n,
                  Timeout |-> DefaultTimeout, Delay |-> DefaultDelay,
                  FilterMode |-> mode, Extensions |-> << <<".","j","a","r">>, <<".","p","o","m">> >>,
                  IncludeMavenMetadata |-> FALSE, CleanHTMLFiles |-> FALSE]
        /\ files = [p \in BlockerFiles(b, base) |-> <<"x">>]
        /\ dirs = {SEP, InitCwd, HomeDir} \cup BlockerDirs(b, base)
        /\ locked = LockedDirs(b, base)
    /\ run = 1
    /\ cwd = InitCwd
    /\ htmlFiles = <<>>
    /\ failLog = <<>>
    /\ prpc = "start"
    /\ repoIdx = 1
    /\ cleanIdx = 1
    /\ stack = <<>>
    /\ dl = IdleDl
    /\ result = "running"
    /\ httpFails = fails
    /\ hist = [reqs |-> {}, written |-> {}, attempted |-> {}, removeTried |-> {},
               parsed |-> {}, pages |-> <<>>, last |-> [text |-> <<>>, e |-> SkipLine, sleeps |-> 0]]
    /\ toml \in tomls
    /\ probe = NoProbe

InitWith(fails) == InitRun(fails, Sites, {TomlDefaults})

Init == InitWith(0)

Next ==
    \/ ProcessRepositoriesStart
    \/ RepoNext
    \/ MainIndexDownloaded
    \/ ParseLine
    \/ FileDownloaded
    \/ SubIndexDownloaded
    \/ ParseIndexReturn
    \/ DownloadAttempt
    \/ DownloadFinish
    \/ CleanupStep
    \/ ProcessRepositoriesReturn

\* one run of the process, against a server that may fail MaxHttpFails times
Spec == Init /\ [][Next]_vars

\* the process takes its next step as long as it has one: weak fairness of Next,
\* in which ENABLED <<Next>>_vars is written as what it amounts to, the run has not
\* ended (every action requires result = "running", and a running process always
\* has a step to take)
StepsWhileRunning == []<>(result # "running") \/ []<><<Next>>_vars

\* one run of a process that is scheduled until it ends
SpecLive == Spec /\ StepsWhileRunning /\ WF_vars(ProcessRepositoriesReturn)

\* up to MaxRuns runs in a row, against a server without transient failures
InitTwice == InitWith(MaxHttpFails)
NextTwice == Next \/ RunAgain
SpecTwice == InitTwice /\ [][NextTwice]_vars

\* one run started through main with any setting of the [files] switches, against
\* a server without transient failures
Tomls == [include_maven_metadata : BOOLEAN, clean_html_files : BOOLEAN]
InitMain == InitRun(MaxHttpFails, {"meta", "odd"}, Tomls)
SpecMain == InitMain /\ [][Next]_vars

(***************************************************************************)
(* The library functions applied on their own: the inclusion filter of the  *)
(* crawler and of package config, and the sanitizers of both builds.        *)
(***************************************************************************)
ExtensionLists == { << <<".","j","a","r">>, <<".","p","o","m">> >>, << <<".","t","a","r",".","g","z">>, <<".","z","i","p">> >>, << <<".","x","m","l">> >>, <<>> }
FilterModeValues == FilterModes \cup {"all"}

FilterNames ==
    { <<"a",".","j","a","r">>, <<"a",".","p","o","m">>, <<"a",".","x","m","l">>, <<"x",".","t","a","r",".","g","z">>, <<"a",".","j","a","r",".","m","d","5">>, <<"R","E","A","D","M","E">>, <<"a",".","J","A","R">>,
      <<"m","a","v","e","n","-","m","e","t","a","d","a","t","a",".","x","m","l">>, <<"g","/","m","a","v","e","n","-","m","e","t","a","d","a","t","a",".","x","m","l">>, <<"s","u","b","/">>, <<"v","1",".","0","/">>, <<"l","i","b",".","z","i","p">> }

InitLib ==
    /\ goos \in {"linux", "windows"}
    /\ \E mode \in FilterModeValues, exts \in ExtensionLists, meta \in BOOLEAN :
        cfg = [ArtiURL |-> ArtiURLs, BaseDir |-> <<"/","o","u","t">>,
               FileTypes |-> << <<".","j","a","r">>, <<".","p","o","m">> >>,
               ForceReplace |-> FALSE, RetryAttempts |-> 1,
               Timeout |-> DefaultTimeout, Delay |-> DefaultDelay,
               FilterMode |-> mode, Extensions |-> exts,
               IncludeMavenMetadata |-> meta, CleanHTMLFiles |-> FALSE]
    /\ site = "std"
    /\ repoList = <<>>
    /\ run = 1
    /\ cwd = InitCwd
    /\ dirs = {SEP, InitCwd, HomeDir}
    /\ files = <<>>
    /\ htmlFiles = <<>>
    /\ failLog = <<>>
    /\ prpc = "lib"
    /\ repoIdx = 1
    /\ cleanIdx = 1
    /\ stack = <<>>
    /\ dl = IdleDl
    /\ result = "running"
    /\ httpFails = 0
    /\ hist = [reqs |-> {}, written |-> {}, attempted |-> {}, removeTried |-> {},
               parsed |-> {}, pages |-> <<>>, last |-> [text |-> <<>>, e |-> SkipLine, sleeps |-> 0]]
    /\ toml = TomlDefaults
    /\ locked = {}
    /\ probe = NoProbe

\* both inclusion filters are asked about a name
ApplyFilter ==
    /\ prpc = "lib"
    /\ \E name \in FilterNames :
        probe' = [op |-> "filter", arg |-> name,
                  crawler |-> shouldDownloadFile(name),
                  config |-> ShouldIncludeFile(cfg, name)]
    /\ UNCHANGED <<locked, toml, goos, cfg, site, repoList, run, cwd, dirs, files, htmlFiles, failLog,
                   prpc, repoIdx, cleanIdx, stack, dl, result, httpFails, hist>>

\* names and paths handed to the sanitizers; LongDirName alone is longer than MaxPathLength
LongDirName == [i \in 1..(MaxPathLength + 1) |-> "a"]

SanitizeNames ==
    { <<"C","O","N",".","t","x","t">>, <<"c","o","n",".","T","X","T">>, <<"L","P","T","1">>, <<"n","u","l",".","t","a","r",".","g","z">>, <<"a",".","t","x","t">>, <<" ","b",".","j","a","r"," ">>, <<"a",":","b","?",".","j","a","r">>,
      <<"c","o","n","s","o","l","e",".","t","x","t">>, <<"C","O","N">>, <<"a","u","x",".","l","o","g">> }

SanitizePaths ==
    { <<"o","u","t","/","r","e","p","o","/","a",".","j","a","r">>, <<"o","u","t","/","/","r","e","p","o","/",".",".","/","a",".","j","a","r">>, <<"/","o","u","t","/",".","/","r","e","p","o","/">>, <<"o","u","t","/"," ","b"," ","/","C","O","N",".","t","x","t">>,
      <<"C",":","\\","o","u","t","\\","c","o","n",".","T","X","T">>, <<"o","u","t","/","a",":","b","/","L","P","T","1">>, <<".">>, <<>>,
      <<"C",":","/">> \o LongDirName \o <<"/","a",".","j","a","r">>, <<"/","o","u","t","/">> \o LongDirName }

\* SanitizeFilename is applied to a name
ApplySanitizeFilename ==
    /\ prpc = "lib"
    /\ \E name \in SanitizeNames :
        probe' = [op |-> "SanitizeFilename", arg |-> name,
                  out |-> IF IsWindowsOS THEN SanitizeFilenameWindows(name)
                          ELSE SanitizeFilename(name)]
    /\ UNCHANGED <<locked, toml, goos, cfg, site, repoList, run, cwd, dirs, files, htmlFiles, failLog,
                   prpc, repoIdx, cleanIdx, stack, dl, result, httpFails, hist>>

\* SanitizePath is applied to a path, and once more to what it returned
ApplySanitizePath ==
    /\ prpc = "lib"
    /\ \E path \in SanitizePaths :
        LET once == IF IsWindowsOS THEN SanitizePathWindows(path) ELSE SanitizePath(path)
        IN  probe' = [op |-> "SanitizePath", arg |-> path, once |-> once,
                      twice |-> IF IsWindowsOS THEN SanitizePathWindows(once)
                                ELSE SanitizePath(once)]
    /\ UNCHANGED <<locked, toml, goos, cfg, site, repoList, run, cwd, dirs, files, htmlFiles, failLog,
                   prpc, repoIdx, cleanIdx, stack, dl, result, httpFails, hist>>

\* listing lines handed to the extraction: an anchor with href value V and visible
\* text L, plain or behind <pre>, indented or not, its href value opened by a quote
\* (the well-formed shape) or by another character
AnchorParts ==
    { << <<"a",".","j","a","r">>, <<"a",".","j","a","r">> >>, << <<"s","u","b","/">>, <<"s","u","b","/">> >>, << <<".","/","c",".","j","a","r">>, <<"c",".","j","a","r">> >>,
      << <<"d","/","e",".","p","o","m">>, <<"e"," ",">"," ","f">> >> }
LineIndents == { <<>>, <<" "," ">>, <<"\t"," ">> }
PreOpen == <<"<","p","r","e",">">>

ExtractLines ==
    { [text |-> ind \o (IF pre THEN PreOpen ELSE <<>>)
                    \o (IF quoted THEN Anchor(p[1], p[2]) ELSE ShiftedAnchor(p[1], p[2])),
       pre |-> pre, quoted |-> quoted, href |-> p[1], label |-> p[2]] :
        ind \in LineIndents, pre \in BOOLEAN, quoted \in BOOLEAN, p \in AnchorParts }

\* the extraction of ParseIndex is applied to a line
ApplyExtract ==
    /\ prpc = "lib"
    /\ \E l \in ExtractLines :
        probe' = [op |-> "Extract", arg |-> l, e |-> Extract(l.text)]
    /\ UNCHANGED <<locked, toml, goos, cfg, site, repoList, run, cwd, dirs, files, htmlFiles, failLog,
                   prpc, repoIdx, cleanIdx, stack, dl, result, httpFails, hist>>

NextLib ==
    \/ ApplyFilter
    \/ ApplyExtract
    \/ ApplySanitizeFilename
    \/ ApplySanitizePath

SpecLib == InitLib /\ [][NextLib]_vars

(***************************************************************************)
(* Properties of the inclusion filter.                                      *)
(***************************************************************************)
\* the name the filters were asked about ends in an extension of cfg.Extensions
EndsInListed == \E i \in 1..Len(cfg.Extensions) : HasSuffix(probe.arg, cfg.Extensions[i])

\* C11: with the metadata override off, both filters say in whitelist mode true
\* for a name that ends in an extension of the set and false for every other name
\* (one whose extension is not in the set), and in blacklist mode the inverse
C11_FilterFollowsExtensions ==
    (probe.op = "filter" /\ ~cfg.IncludeMavenMetadata)
        => /\ cfg.FilterMode = FilterModeWhitelist
                  => probe.crawler = EndsInListed /\ probe.config = EndsInListed
           /\ cfg.FilterMode = FilterModeBlacklist
                  => probe.crawler = ~EndsInListed /\ probe.config = ~EndsInListed

\* a whitelist with .tar.gz was asked about x.tar.gz, whose last extension is .gz
C11_CompoundExtensionAccepted ==
    /\ probe.op = "filter"
    /\ ~cfg.IncludeMavenMetadata
    /\ cfg.FilterMode = FilterModeWhitelist
    /\ cfg.Extensions = << <<".","t","a","r",".","g","z">>, <<".","z","i","p">> >>
    /\ probe.arg = <<"x",".","t","a","r",".","g","z">>
    /\ probe.crawler /\ probe.config

\* C12: with the metadata override on, both filters say true for every name that
\* ends in maven-metadata.xml, whatever the mode and the extension list
C12_MetadataAlwaysIncluded ==
    (probe.op = "filter" /\ cfg.IncludeMavenMetadata
        /\ HasSuffix(probe.arg, <<"m","a","v","e","n","-","m","e","t","a","d","a","t","a",".","x","m","l">>))
        => probe.crawler /\ probe.config

\* a whitelist without .xml was asked about a maven-metadata.xml in a directory
C12_MetadataPastWhitelist ==
    /\ probe.op = "filter"
    /\ cfg.IncludeMavenMetadata
    /\ cfg.FilterMode = FilterModeWhitelist
    /\ cfg.Extensions = << <<".","j","a","r">>, <<".","p","o","m">> >>
    /\ probe.arg = <<"g","/","m","a","v","e","n","-","m","e","t","a","d","a","t","a",".","x","m","l">>
    /\ probe.crawler /\ probe.config

(***************************************************************************)
(* Properties of the extraction and of downloadFile.                        *)
(***************************************************************************)
\* the (href, label) pairs of the listing lines in the documented shape
DocumentedAnchors ==
    { << <<"a",".","j","a","r">>, <<"a",".","j","a","r">> >>, << <<"s","u","b","/">>, <<"s","u","b","/">> >>, << <<"b",".","p","o","m">>, <<"b",".","p","o","m">> >> }

\* C1: when the line the scan handled last is <a href="V">L</a>, the extraction
\* yields the entry (V, L) and the scan is not aborted
C1_QuotedHrefExtracted ==
    \A p \in DocumentedAnchors :
        hist.last.text = Anchor(p[1], p[2])
            => /\ hist.last.e = EntryLine(p[1], p[2])
               /\ result # "panic"

\* downloadFile has returned after k requests of which only the last one succeeded
SucceededAtLast ==
    /\ dl.pc = "ret"
    /\ Len(dl.outs) >= 1
    /\ ~Failed(dl.outs[Len(dl.outs)])
    /\ \A i \in 1..(Len(dl.outs) - 1) : Failed(dl.outs[i])

\* C2: when the first k-1 attempts fail and attempt k <= RetryAttempts answers 200,
\* downloadFile has made k requests, slept k-1 times, written the file and
\* returned no error
C2_SucceedsAtAttemptK ==
    SucceededAtLast
        => /\ Len(dl.outs) <= cfg.RetryAttempts
           /\ dl.sleeps = Len(dl.outs) - 1
           /\ dl.created
           /\ dl.ret = NoErr

\* C3: no request is issued and no file is written for an entry whose label
\* contains "..", so that nothing is created and nothing is recursed into for it
C3_ParentRefSkipped ==
    /\ \A q \in hist.reqs : ~Contains(q.entry, DOTDOT)
    /\ \A w \in hist.written : ~Contains(w.label, DOTDOT)

\* C4: a file downloaded for an entry of the page of local directory D is written
\* at D joined with the entry's label
C4_WrittenUnderPageDir ==
    \A w \in hist.written : w.at = Join(<<w.dir, w.label>>)

\* downloadFile has returned and every request it made got a non-200 status
AllNon200 ==
    /\ dl.pc = "ret"
    /\ \A i \in 1..Len(dl.outs) : ~dl.outs[i].err /\ dl.outs[i].status # StatusOK

\* C5: with RetryAttempts = n >= 1 and only non-200 answers, downloadFile makes
\* n requests, sleeps n-1 times, creates no file (none stands at its target) and
\* returns the error of the last status
C5_ExhaustedRetries ==
    (cfg.RetryAttempts >= 1 /\ AllNon200)
        => /\ Len(dl.outs) = cfg.RetryAttempts
           /\ dl.sleeps = cfg.RetryAttempts - 1
           /\ ~dl.created
           /\ Abs(cwd, dl.filepath) \notin DOMAIN files
           /\ dl.ret = StatusErr(dl.outs[Len(dl.outs)].status)

\* a download with two or more attempts, all answered by a non-200 status, returned
C5_Exhausted ==
    /\ cfg.RetryAttempts >= 2
    /\ AllNon200
    /\ Len(dl.outs) = cfg.RetryAttempts
    /\ dl.ret.kind = "status"

(***************************************************************************)
(* Properties of ParseIndex and of ProcessRepositories.                     *)
(***************************************************************************)
\* C6: once the base and export directories exist the run ends with success, and
\* by then every non-blank repository of the list has been attempted
C6_EveryRepositoryAttempted ==
    (result # "running" /\ prpc # "start")
        => /\ result = "ok"
           /\ \A i \in 1..Len(repoList) :
                  TrimSpace(repoList[i]) # <<>> => <<run, i>> \in hist.attempted

\* the set of elements of a sequence
Range(s) == {s[i] : i \in 1..Len(s)}

\* every page whose parse was started in this run has its index file in the ledger
LedgerHoldsParsed == \A p \in hist.parsed : p.run = run => p.path \in Range(htmlFiles)

\* a deletion was attempted in this run for every path in the ledger
LedgerConsumed == \A i \in 1..Len(htmlFiles) : <<run, htmlFiles[i]>> \in hist.removeTried

\* within a run the ledger only grows at its end
LedgerGrows ==
    run' = run => /\ Len(htmlFiles') >= Len(htmlFiles)
                  /\ SubSeq(htmlFiles', 1, Len(htmlFiles)) = htmlFiles

FileDownloadFailed ==
    /\ result = "running"
    /\ stack # <<>>
    /\ dl.pc = "ret"
    /\ dl.who = "file"
    /\ dl.ret # NoErr

\* the wget line for the entry the scan handled last
WgetLine ==
    [timeout |-> cfg.Timeout, tries |-> cfg.RetryAttempts,
     O |-> hist.last.e.label, url |-> Top.artiURL \o hist.last.e.href]

\* ParseIndex neither returns nor stops: the scan is at the next line of the page
ScanGoesOn ==
    /\ result' = "running"
    /\ Len(stack') = Len(stack)
    /\ stack'[Len(stack)].idx = Top.idx + 1
    /\ stack'[Len(stack)].wait = "none"

\* the directory of the failure log exists or can be made, and the log can be opened
LogDir == Abs(cwd, Join(<<HomeDir, <<"D","o","c","u","m","e","n","t","s">>, <<"E","X","P","O","R","T","_","A","R","T","I">>>>))
LogCanBeOpened ==
    /\ Ancestors(LogDir) \cap DOMAIN files = {}
    /\ Abs(LogDir, <<"f","a","i","l","e","d","_","d","o","w","n","l","o","a","d",".","t","x","t">>) \notin dirs

\* C8 as stated: after a failed file download ParseIndex appends exactly one wget
\* line to the failure log and goes on with the next line
C8_FailureLoggedAlways ==
    [][FileDownloadFailed => (failLog' = Append(failLog, WgetLine) /\ ScanGoesOn)]_vars

\* C8 amended: after a failed file download ParseIndex goes on with the next line;
\* it appends exactly one wget line to the failure log when the log can be opened,
\* and appends nothing otherwise
C8_FailureLoggedWhenLogOpens ==
    [][FileDownloadFailed =>
         /\ ScanGoesOn
         /\ failLog' = IF LogCanBeOpened THEN Append(failLog, WgetLine) ELSE failLog]_vars

\* a failed file download was logged and the scan is at a later line of the page
C8_LoggedAndGoingOn ==
    /\ result = "running"
    /\ stack # <<>>
    /\ dl.pc = "idle"
    /\ Top.wait = "none"
    /\ Top.idx >= 2
    /\ Len(failLog) = 1
    /\ failLog[1] = WgetLine
    /\ \E q \in hist.reqs : q.who = "file" /\ ~q.ok /\ q.url = failLog[1].url

\* C9: in a run after the first with force_replace = false no target file that the
\* remote holds is requested, and the run does not end in a failure
C9_SecondRunDownloadsNothing ==
    ~cfg.ForceReplace
        => /\ \A q \in hist.reqs :
                  q.run >= 2 => ~(q.who = "file" /\ Remote(site, q.url).kind = "file")
           /\ run >= 2 => result \in {"running", "ok"}

\* the remote tree of the example, reached through a whitelist of its extensions
\* with room for every request, and every request made so far has succeeded
MirrorScenario ==
    /\ site = "std"
    /\ cfg.FilterMode = FilterModeWhitelist
    /\ cfg.RetryAttempts >= 1
    /\ cfg.BaseDir = <<"/","o","u","t">>
    /\ \A q \in hist.reqs : q.ok

\* C10: once its directories exist, a full run over that tree ends with success, with root/a.jar and
\* root/sub/b.pom under the output directory, no index file left and no line in
\* the failure log
C10_FullRunMirrorsRemote ==
    (MirrorScenario /\ prpc # "start" /\ result # "running")
        => /\ result = "ok"
           /\ { <<"/","o","u","t","/","r","o","o","t","/","a",".","j","a","r">>, <<"/","o","u","t","/","r","o","o","t","/","s","u","b","/","b",".","p","o","m">> } \subseteq DOMAIN files
           /\ \A f \in DOMAIN files : ~HasSuffix(f, <<"-","i","n","d","e","x",".","h","t","m","l">>)
           /\ failLog = <<>>

(***************************************************************************)
(* Properties of the classification of entries.                             *)
(***************************************************************************)
\* the scan loop is about to handle the line at its position
ScanAtLine ==
    /\ result = "running"
    /\ stack # <<>>
    /\ dl.pc = "idle"
    /\ Top.wait = "none"
    /\ Top.idx <= Len(Lines(Top.content))

\* the directory links of the remote pages that the extraction gets through
DirLinks == { <<"s","u","b","/">> }

\* C13: in every filter mode a directory link is rejected by the inclusion filter
\* and traversed: its directory is created and its sub-index is requested
C13_DirectoryLinkTraversed ==
    [][\A d \in DirLinks :
          (ScanAtLine /\ Lines(Top.content)[Top.idx] = ShiftedAnchor(d, d))
              => /\ ~shouldDownloadFile(d)
                 /\ Abs(cwd, Join(<<Top.safePath, d>>)) \in dirs'
                 /\ dl'.pc = "loop"
                 /\ dl'.who = "sub"
                 /\ dl'.urlStr = Top.artiURL \o d]_vars

\* the lines of the remote pages that are candidates but not well formed
MalformedLines == {NoQuoteLine, NoGtLine, NoEndLine, NoClosingQuoteLine}

\* C20: a malformed candidate line is skipped: the scan neither fails nor crashes,
\* starts no download, makes no directory and goes on with the next line
C20_MalformedLineSkipped ==
    [][(ScanAtLine /\ Lines(Top.content)[Top.idx] \in MalformedLines)
          => /\ result' = "running"
             /\ dl' = dl
             /\ dirs' = dirs
             /\ cwd' = cwd
             /\ stack' = ReplaceTop(Advance(Top))]_vars

(***************************************************************************)
(* Properties of the switches main is started with.                         *)
(***************************************************************************)
\* C14: when clean_html_files is off no deletion of an index file is attempted,
\* and the index files the run downloaded are in place when it returns
C14_NoCleanupWhenDisabled ==
    ~toml.clean_html_files
        => /\ hist.removeTried = {}
           /\ result = "ok" => \A i \in 1..Len(htmlFiles) : htmlFiles[i] \in DOMAIN files

\* C17: when include_maven_metadata is on, an entry maven-metadata.xml is requested
\* as a file only, whatever the filter settings
C17_MetadataIncludedThroughMain ==
    toml.include_maven_metadata
        => \A q \in hist.reqs : q.entry = <<"m","a","v","e","n","-","m","e","t","a","d","a","t","a",".","x","m","l">> => q.who = "file"

(***************************************************************************)
(* Properties of package pathutil.                                          *)
(***************************************************************************)
\* C15: SanitizePath is idempotent on both kinds of platform: applied to a path it
\* returned, it returns that path again, also for a path longer than MaxPathLength
\* that got the long path prefix
C15_SanitizePathIdempotent ==
    probe.op = "SanitizePath" => probe.twice = probe.once

\* the base name of the trimmed name, upper-cased and with its extension stripped,
\* is a reserved device name
IsReservedName(name) ==
    LET base == ToUpper(WinBase(TrimSpace(name)))
    IN  TrimSuffix(base, WinExt(base)) \in reservedNames

\* the name with one underscore put before its extension
UnderscoreBeforeExt(name) ==
    TrimSuffix(name, WinExt(name)) \o <<"_">> \o WinExt(name)

\* C16: on Windows a name whose base is a reserved device name comes back with one
\* underscore before its extension and is no longer reserved; on the other
\* platforms a name comes back with only its surrounding whitespace trimmed
C16_ReservedNameGetsUnderscore ==
    probe.op = "SanitizeFilename" =>
        IF IsWindowsOS
        THEN IsReservedName(probe.arg) =>
                /\ probe.out = UnderscoreBeforeExt(TrimSpace(probe.arg))
                /\ ~IsReservedName(probe.out)
        ELSE probe.out = TrimSpace(probe.arg)

(***************************************************************************)
(* The error of an exhausted download.                                      *)
(***************************************************************************)
\* downloadFile has returned after one attempt or more, and every attempt failed
AllAttemptsFailed ==
    /\ dl.pc = "ret"
    /\ dl.outs # <<>>
    /\ \A i \in 1..Len(dl.outs) : dl.outs[i].err \/ dl.outs[i].status # StatusOK

\* C19: when all RetryAttempts attempts of downloadFile fail, it returns the
\* failure of the last attempt, the transport error if that attempt had one and
\* the error of its status code otherwise, whatever the earlier attempts had
C19_LastFailureReturned ==
    AllAttemptsFailed =>
        /\ Len(dl.outs) = cfg.RetryAttempts
        /\ LET last == dl.outs[Len(dl.outs)]
           IN  dl.ret = IF last.err THEN [kind |-> "transport", code |-> 0]
                        ELSE [kind |-> "status", code |-> last.status]

\* an exhausted download whose first attempt had a transport error and whose last
\* attempt had a status code, which is the one returned
C19_StatusAfterTransportError ==
    /\ AllAttemptsFailed
    /\ Len(dl.outs) >= 2
    /\ dl.outs[1].err
    /\ ~dl.outs[Len(dl.outs)].err
    /\ dl.ret.kind = "status"

(***************************************************************************)
(* The existence check and the throttle of a file entry.                    *)
(***************************************************************************)
\* what the extraction makes of the line the scan is at
ScannedEntry == Extract(Lines(Top.content)[Top.idx])

\* the scan is at a file entry: the filter includes it and its label ends with no separator
AtFileEntry ==
    /\ ScanAtLine
    /\ ScannedEntry.kind = "entry"
    /\ shouldDownloadFile(ScannedEntry.href)
    /\ ~HasSuffix(ScannedEntry.label, SEP)

\* there is a file at the sanitized target path of the scanned entry
TargetExists ==
    Abs(cwd, SafeJoin(<<Top.safePath, ScannedEntry.label>>)) \in DOMAIN files

\* a download made for a file entry is under way or has returned
FileCallOpen == dl.who = "file" /\ dl.pc \in {"loop", "ret"} /\ result = "running"

\* C18: a file entry whose target exists is, with ForceReplace false, passed over
\* without a request, without a sleep and with the file system as it was; any other
\* file entry gets one call of downloadFile, and when that call returns, with or
\* without an error, ParseIndex sleeps once and goes on with the next line
C18_SkipExistingElseDownloadAndSleep ==
    /\ [](hist.last.sleeps <= 1)
    /\ [][(AtFileEntry /\ ~cfg.ForceReplace /\ TargetExists)
             => /\ hist'.reqs = hist.reqs
                /\ dl' = dl
                /\ files' = files
                /\ hist'.last.sleeps = 0
                /\ stack' = ReplaceTop(Advance(Top))]_vars
    /\ [][(AtFileEntry /\ (cfg.ForceReplace \/ ~TargetExists))
             => /\ dl'.pc = "loop"
                /\ dl'.who = "file"
                /\ dl'.filepath = ScannedEntry.label
                /\ dl'.urlStr = Top.artiURL \o ScannedEntry.href
                /\ hist'.last.sleeps = 0]_vars
    /\ [][(FileCallOpen /\ dl.pc = "loop")
             => /\ dl'.who = "file"
                /\ dl'.urlStr = dl.urlStr
                /\ hist'.last.sleeps = 0]_vars
    /\ [][(FileCallOpen /\ dl.pc = "ret")
             => /\ dl' = IdleDl
                /\ hist'.last.sleeps = 1
                /\ stack' = ReplaceTop(Advance(Top))]_vars

\* a second run passed over an entry whose file the first run had written
C18_ExistingFilePassedOver ==
    /\ run = 2
    /\ ~cfg.ForceReplace
    /\ hist.last.e.kind = "entry"
    /\ hist.last.sleeps = 0
    /\ dl.pc = "idle"
    /\ \E w \in hist.written :
          /\ w.run = 1
          /\ w.label = hist.last.e.label
          /\ w.at \in DOMAIN files
    /\ \A q \in hist.reqs : q.run = 2 => q.entry # hist.last.e.label

\* ParseIndex slept once after a download that returned an error
C18_SleptAfterFailedDownload ==
    /\ hist.last.sleeps = 1
    /\ hist.last.e.kind = "entry"
    /\ failLog # <<>>

(***************************************************************************)
(* The label of a listing line.                                             *)
(***************************************************************************)
\* C21: from a well-formed candidate line, plain or wrapped in <pre>, the
\* extraction yields an entry whose label is the anchor's visible text
C21_LabelIsVisibleText ==
    (probe.op = "Extract" /\ probe.arg.quoted)
        => /\ probe.e.kind = "entry"
           /\ probe.e.label = probe.arg.label

(***************************************************************************)
(* Failures of a subdirectory entry.                                        *)
(***************************************************************************)
\* the scan is at a subdirectory entry that ParseIndex does not refuse
AtDirEntry ==
    /\ ScanAtLine
    /\ ScannedEntry.kind = "entry"
    /\ ~shouldDownloadFile(ScannedEntry.href)
    /\ ~Contains(ScannedEntry.label, DOTDOT)

\* the local directory of the scanned subdirectory entry
ScannedDir == Abs(cwd, SafeJoin(<<Top.safePath, ScannedEntry.label>>))

\* the download of a sub-index has returned to ParseIndex
SubIndexReturned == result = "running" /\ stack # <<>> /\ dl.pc = "ret" /\ dl.who = "sub"

\* the recursive ParseIndex on the downloaded sub-index returns an error at once:
\* it cannot open the file or cannot change into the directory
RecursionFails ==
    \/ Abs(cwd, Top.indexName) \notin DOMAIN files
    \/ Abs(cwd, Join(<<Top.dirPath, SEP>>)) \notin dirs \ locked

\* the parent ParseIndex goes on with the line after the entry
ParentGoesOn ==
    /\ result' = "running"
    /\ Len(stack') = Len(stack)
    /\ stack' = ReplaceTop([Top EXCEPT !.idx = @ + 1, !.wait = "none"])

\* C22: when the directory of a subdirectory entry cannot be created or cannot be
\* changed into, when the download of its sub-index returns an error, and when the
\* recursive ParseIndex returns an error, the parent ParseIndex neither returns
\* nor fails: it goes on with the next line of its page
C22_FailedSubdirAbortsOnlyEntry ==
    /\ [][(AtDirEntry /\ ScannedDir \in DOMAIN files) => (ParentGoesOn /\ dl' = dl)]_vars
    /\ [][(AtDirEntry /\ ScannedDir \in locked) => (ParentGoesOn /\ dl' = dl /\ cwd' = cwd)]_vars
    /\ [][(SubIndexReturned /\ dl.ret # NoErr) => ParentGoesOn]_vars
    /\ [][(SubIndexReturned /\ dl.ret = NoErr /\ RecursionFails) => ParentGoesOn]_vars

\* the scan went on after the line of sub/, whose sub-index was downloaded and
\* handed to a recursive ParseIndex that returned an error before its scan
C22_WentOnAfterFailedRecursion ==
    /\ result = "running"
    /\ Len(stack) = 1
    /\ Top.wait = "none"
    /\ dl.pc = "idle"
    /\ hist.last.e = EntryLine(<<"s","u","b","/">>, <<"s","u","b","/">>)
    /\ ~shouldDownloadFile(<<"s","u","b","/">>)
    /\ Top.idx <= Len(Lines(Top.content))
    /\ \E q \in hist.reqs : q.who = "sub" /\ q.ok /\ q.entry = <<"s","u","b","/">>
    /\ \A q \in hist.reqs : q.entry # <<"b",".","p","o","m">>

\* the scan went on after the line of sub/, where a regular file stands in the
\* way of the directory
C22_WentOnAfterFailedMkdir ==
    /\ result = "running"
    /\ stack # <<>>
    /\ Top.wait = "none"
    /\ dl.pc = "idle"
    /\ hist.last.e = EntryLine(<<"s","u","b","/">>, <<"s","u","b","/">>)
    /\ ~shouldDownloadFile(<<"s","u","b","/">>)
    /\ Abs(cwd, SafeJoin(<<Top.safePath, <<"s","u","b","/">>>>)) \in DOMAIN files
    /\ \A q \in hist.reqs : q.who # "sub"

\* the scan went on after the line of sub/, whose directory cannot be entered
C22_WentOnAfterFailedChdir ==
    /\ result = "running"
    /\ stack # <<>>
    /\ Top.wait = "none"
    /\ dl.pc = "idle"
    /\ hist.last.e = EntryLine(<<"s","u","b","/">>, <<"s","u","b","/">>)
    /\ ~shouldDownloadFile(<<"s","u","b","/">>)
    /\ Abs(cwd, SafeJoin(<<Top.safePath, <<"s","u","b","/">>>>)) \in locked
    /\ \A q \in hist.reqs : q.who # "sub"

\* the scan went on after the line of sub/, whose sub-index could not be downloaded
C22_WentOnAfterFailedSubIndex ==
    /\ result = "running"
    /\ stack # <<>>
    /\ Top.wait = "none"
    /\ dl.pc = "idle"
    /\ hist.last.e = EntryLine(<<"s","u","b","/">>, <<"s","u","b","/">>)
    /\ ~shouldDownloadFile(<<"s","u","b","/">>)
    /\ \E q \in hist.reqs : q.who = "sub" /\ q.entry = <<"s","u","b","/">>
    /\ \A q \in hist.reqs : q.entry = <<"s","u","b","/">> => ~q.ok

(***************************************************************************)
(* A filter mode outside the three valid ones.                              *)
(***************************************************************************)
\* C23: with a FilterMode other than none, whitelist and blacklist, and the
\* metadata override off, shouldDownloadFile excludes every name
C23_UnknownModeExcludesAll ==
    (/\ probe.op = "filter"
     /\ cfg.FilterMode \notin {FilterModeNone, FilterModeWhitelist, FilterModeBlacklist}
     /\ ~cfg.IncludeMavenMetadata)
        => ~probe.crawler

(***************************************************************************)
(* The traversal root of every repository.                                  *)
(***************************************************************************)
\* the local base directory of the run, as the process resolves it when it starts
BaseDirAbs == Abs(InitCwd, SanitizePath(cfg.BaseDir))

\* C24: for every repository of the list, the directory ParseIndex changes into
\* when the parse of its main index starts is the local base directory of the run
C24_EveryRepoParsedInBaseDir ==
    [][(prpc = "dlmain" /\ prpc' = "parse") => cwd' = BaseDirAbs]_vars

(***************************************************************************)
(* The export directory and the failure log.                                *)
(***************************************************************************)
\* C25: the directory in which ParseIndex writes the failure log is the export
\* directory that ProcessRepositories ensured when the run started
C25_FailureLogInExportDir ==
    failLog # <<>> => Dir(Abs(cwd, FailLogPath)) = Abs(InitCwd, ExportDir)

(***************************************************************************)
(* The response downloadFile uses.                                          *)
(***************************************************************************)
\* one of the requests of the active downloadFile call was answered with status 200
GotStatusOK == \E i \in 1..Len(dl.outs) : ~dl.outs[i].err /\ dl.outs[i].status = StatusOK

\* C26: downloadFile gets past its loop to the response and the local file only
\* when one of its requests returned status 200; with RetryAttempts = 0 it makes
\* no request and returns without touching the response it never got
C26_ResponseUsedOnlyAfter200 ==
    [][(result = "running" /\ dl.pc = "loop")
          => /\ (dl'.created \/ dl'.ret = FsErr) => GotStatusOK
             /\ files' # files => GotStatusOK
             /\ result' # "panic"]_vars

(***************************************************************************)
(* Termination of a run.                                                    *)
(***************************************************************************)
\* no index page was scanned twice in one run
EachPageParsedOnce ==
    \A i, j \in 1..Len(hist.pages) : i # j => hist.pages[i] # hist.pages[j]

\* ProcessRepositories has returned and the cleanup has gone through the ledger
ReturnedAfterCleanup ==
    /\ result \in {"ok", "error"}
    /\ cleanIdx > Len(htmlFiles)

\* C27: over a finite tree of pages and a server that answers every request,
\* ProcessRepositories eventually returns, after it scanned every index page
\* at most once and after the cleanup went through the ledger
C27_RunReturnsAfterCleanup ==
    /\ []EachPageParsedOnce
    /\ <>ReturnedAfterCleanup

====
